---- MODULE Spec2Model ----
(***************************************************************************)
(* Opple Light Master telemetry capture: the frame parser, the BLE         *)
(* notification handler with its phase buffer, the CSV export, and the two *)
(* session scripts that drive them:                                        *)
(*   OPPLE_read_1.py  three automated phases (No Filter, 2 Layers,         *)
(*                    4 Layers), run_measurement_phase                     *)
(*   OPPLE_read.py    interactive menu, halogen reference phase inline     *)
(* A state of the model is a point where the asyncio main task is          *)
(* suspended (an await, or the blocking input()); notification callbacks   *)
(* run only while the task is suspended at an await.                       *)
(***************************************************************************)
EXTENDS Integers, Sequences, FiniteSets, TLC

VARIABLES
    script,                   \* which script runs: "read_1" | "read"
    pc,                       \* where the main task is suspended
    phase,                    \* read_1: index of the running phase in PHASES; read: menu rounds used
    i,                        \* loop variable of "for i in range(num_measurements)"
    services,                 \* the characteristics the device exposes, in enumeration order
    char_idx,                 \* position of the enumeration loop in services
    is_connected,             \* client.is_connected
    rx_char_found,            \* local rx_char_found of main()
    tx_char_found,            \* local tx_char_found of main()
    subscribed,               \* characteristics with notifications started
    current_measurements,     \* the list the global current_measurements is bound to
    measurement_session_data, \* read: measurement_session_data["halogen_reference"]
    aliased,                  \* read: that entry is the very list current_measurements names
    current_mode,             \* read: the global current_mode
    current_sample_name,      \* read: the global current_sample_name
    files,                    \* CSV files on disk: name -> <<>> (absent) or <<file>>
    raw_log,                  \* lines appended to RAW_DATA_LOG_FILE
    clock,                    \* notifications delivered so far (the handler's timestamp)
    notification,             \* arguments of the latest notification_handler call
    parsed,                   \* what parse_opple_data returned last
    written,                  \* write_gatt_char calls of the latest command loop: [data, ok]
    exported,                 \* save_measurements_to_csv calls so far: [name, rows, saved]
    avg_data,                 \* read: what calculate_average returned last, <<>> before
    cancelled,                \* the main task was cancelled by Ctrl+C
    outcome                   \* how asyncio.run(main()) ended, "" while running

vars == <<script, pc, phase, i, services, char_idx, is_connected, rx_char_found,
          tx_char_found, subscribed, current_measurements, measurement_session_data,
          aliased, current_mode, current_sample_name, files, raw_log, clock, notification, parsed, written, exported,
          avg_data, cancelled, outcome>>

(***************************************************************************)
(* Bounds of the model.                                                    *)
(***************************************************************************)
\* notifications delivered in one run of a session script
MaxNotifications == 2
\* notifications delivered to the handler in the handler-only specification
MaxHandlerFrames == 4
\* num_measurements (15 in the scripts), the repeat count of a phase
NumMeasurements == 2
\* menu choices the operator makes in OPPLE_read.py
MaxMenuChoices == 2

(***************************************************************************)
(* Python values.                                                          *)
(***************************************************************************)
\* None is the empty option, a value v is <<v>>
None == <<>>
Some(v) == <<v>>

\* data[a:b] of a bytes object (0-based, end exclusive, clipped to the length)
Slice(data, a, b) ==
    LET hi == IF b < Len(data) THEN b ELSE Len(data)
    IN  IF a >= hi THEN <<>> ELSE SubSeq(data, a + 1, hi)

RECURSIVE Hex(_)
\* data.hex(): two hexadecimal digits per byte, high nibble first
Hex(data) ==
    IF data = <<>> THEN <<>>
    ELSE <<Head(data) \div 16, Head(data) % 16>> \o Hex(Tail(data))

\* byte-order slip: the 20-byte fields read big-endian like the battery field
UnpackLE16Swapped(b) == IF Len(b) = 2 THEN Some(256 * b[1] + b[2]) ELSE None

\* struct.unpack('<H', b)[0]; <<>> stands for struct.error (b is not 2 bytes long)
UnpackLE16(b) == IF Len(b) = 2 THEN Some(b[1] + 256 * b[2]) ELSE None

\* byte-order slip: the battery field read little-endian like the 20-byte fields
UnpackBE16Swapped(b) == IF Len(b) = 2 THEN Some(b[1] + 256 * b[2]) ELSE None

\* struct.unpack('>H', b)[0]; <<>> stands for struct.error
UnpackBE16(b) == IF Len(b) = 2 THEN Some(256 * b[1] + b[2]) ELSE None

(***************************************************************************)
(* Device configuration.                                                   *)
(***************************************************************************)
OPPLE_CHARACTERISTIC_UUID_DATA_RX == "6e400002-b5a3-f393-e0a9-e50e24dcca9e"
OPPLE_CHARACTERISTIC_UUID_COMMAND_TX == "6e400003-b5a3-f393-e0a9-e50e24dcca9e"
\* a characteristic of the device that is neither of the two
OTHER_UUID == "00002a19-0000-1000-8000-00805f9b34fb"

OPPLE_COMMAND_START_MEASUREMENT == <<0, 0, 14, 0, 19, 0, 0, 2, 0, 0, 0, 0, 10, 0>>
\* slip: a byte of the stop command is lost
OPPLE_COMMAND_STOP_TRUNCATED == <<0, 0, 14, 0, 19, 0, 0, 2, 0, 0, 0, 11, 0>>

OPPLE_COMMAND_STOP_MEASUREMENT == <<0, 0, 14, 0, 19, 0, 0, 2, 0, 0, 0, 0, 11, 0>>

fieldnames ==
    <<"timestamp", "raw_hex", "RawVal_1", "RawVal_2", "RawVal_3", "RawBattery_mV",
      "App_Lux", "App_CCT", "App_Ra", "App_x", "App_y", "App_u", "App_v",
      "App_Battery_Percent">>

(***************************************************************************)
(* parse_opple_data(data, source_uuid).  The result is a dict (tag "dict") *)
(* or a str (tag "str", with the prefix the handler tests).                *)
(***************************************************************************)
\* parse_opple_data has not been called yet
NotParsed == [tag |-> "none"]

ParseError == [tag |-> "str", prefix |-> "ERROR"]
ParseInfo == [tag |-> "str", prefix |-> "INFO"]

\* slip: "or" for "and", one zero field is enough for DARK
MeasurementStateAnyZero(raw_val1, raw_val2, raw_val3) ==
    IF raw_val1 = 0 \/ raw_val2 = 0 \/ raw_val3 = 0 THEN "DARK" ELSE "LIGHT_DETECTED"

\* "if raw_val1 == 0 and raw_val2 == 0 and raw_val3 == 0"
MeasurementState(raw_val1, raw_val2, raw_val3) ==
    IF raw_val1 = 0 /\ raw_val2 = 0 /\ raw_val3 = 0 THEN "DARK" ELSE "LIGHT_DETECTED"

Parse20(data) ==
    LET raw_val1 == UnpackLE16(Slice(data, 14, 16))
        raw_val2 == UnpackLE16(Slice(data, 16, 18))
        raw_val3 == UnpackLE16(Slice(data, 18, 20))
    IN  IF raw_val1 = None \/ raw_val2 = None \/ raw_val3 = None
        THEN ParseError
        ELSE [tag |-> "dict",
              packet_type |-> "20_byte_measurement_or_status",
              raw_hex |-> Hex(data),
              RawVal_1 |-> raw_val1[1],
              RawVal_2 |-> raw_val2[1],
              RawVal_3 |-> raw_val3[1],
              measurement_state |->
                  MeasurementState(raw_val1[1], raw_val2[1], raw_val3[1])]

Parse11(data) ==
    LET raw_battery_mv == UnpackBE16(Slice(data, 8, 10))
    IN  IF raw_battery_mv = None
        THEN ParseError
        ELSE [tag |-> "dict",
              packet_type |-> "11_byte_status_or_battery",
              raw_hex |-> Hex(data),
              RawBattery_mV |-> raw_battery_mv[1]]

\* an exception that leaves parse_opple_data instead of a return value
Raised == [tag |-> "raised"]

\* slip: no test for the unknown lengths and no try around the unpacking, a
\* command-channel frame that is not 11 bytes long is unpacked as a 20-byte one
parse_opple_data_unguarded(data, source_uuid) ==
    IF source_uuid = OPPLE_CHARACTERISTIC_UUID_COMMAND_TX
    THEN IF Len(data) = 11 THEN Parse11(data)
         ELSE IF Parse20(data) = ParseError THEN Raised ELSE Parse20(data)
    ELSE IF source_uuid = OPPLE_CHARACTERISTIC_UUID_DATA_RX
    THEN [tag |-> "dict",
          packet_type |-> "MEASUREMENT_DATA_CANDIDATE_FROM_RX_CHAR",
          raw_hex |-> Hex(data),
          data_length |-> Len(data)]
    ELSE ParseInfo

\* slip: a minimum-length test ("len(data) >= 20") for the exact one
parse_opple_data_min_len(data, source_uuid) ==
    IF source_uuid = OPPLE_CHARACTERISTIC_UUID_COMMAND_TX
    THEN IF Len(data) >= 20 THEN Parse20(data)
         ELSE IF Len(data) = 11 THEN Parse11(data)
         ELSE [tag |-> "dict",
               packet_type |-> "UNKNOWN_LEN_FROM_COMMAND_CHAR",
               packet_len |-> Len(data),
               raw_hex |-> Hex(data)]
    ELSE IF source_uuid = OPPLE_CHARACTERISTIC_UUID_DATA_RX
    THEN [tag |-> "dict",
          packet_type |-> "MEASUREMENT_DATA_CANDIDATE_FROM_RX_CHAR",
          raw_hex |-> Hex(data),
          data_length |-> Len(data)]
    ELSE ParseInfo

\* slip: the sender is not looked at, frames of the data characteristic are
\* dispatched by length like those of the command characteristic
parse_opple_data_any_sender(data, source_uuid) ==
    IF source_uuid \in {OPPLE_CHARACTERISTIC_UUID_COMMAND_TX,
                        OPPLE_CHARACTERISTIC_UUID_DATA_RX}
    THEN IF Len(data) = 20 THEN Parse20(data)
         ELSE IF Len(data) = 11 THEN Parse11(data)
         ELSE [tag |-> "dict",
               packet_type |-> "UNKNOWN_LEN_FROM_COMMAND_CHAR",
               packet_len |-> Len(data),
               raw_hex |-> Hex(data)]
    ELSE ParseInfo

parse_opple_data(data, source_uuid) ==
    IF source_uuid = OPPLE_CHARACTERISTIC_UUID_COMMAND_TX
    THEN IF Len(data) = 20 THEN Parse20(data)
         ELSE IF Len(data) = 11 THEN Parse11(data)
         ELSE [tag |-> "dict",
               packet_type |-> "UNKNOWN_LEN_FROM_COMMAND_CHAR",
               packet_len |-> Len(data),
               raw_hex |-> Hex(data)]
    ELSE IF source_uuid = OPPLE_CHARACTERISTIC_UUID_DATA_RX
    THEN [tag |-> "dict",
          packet_type |-> "MEASUREMENT_DATA_CANDIDATE_FROM_RX_CHAR",
          raw_hex |-> Hex(data),
          data_length |-> Len(data)]
    ELSE ParseInfo

(***************************************************************************)
(* Frames.  A notification is <<sender uuid, data>>.                       *)
(***************************************************************************)
\* bytes 0..13 of the 20-byte frame quoted in OPPLE_read.py, line 56
Header20 == <<128, 0, 31, 0, 0, 0, 0, 0, 2, 0, 0, 0, 10, 1>>
Frame20(b14_19) == Header20 \o b14_19
Frame11(b8, b9) == <<128, 0, 22, 0, 0, 0, 0, 0>> \o <<b8, b9>> \o <<0>>

LightFrame == <<OPPLE_CHARACTERISTIC_UUID_COMMAND_TX, Frame20(<<11, 0, 178, 16, 130, 22>>)>>
LightHighByteFrame == <<OPPLE_CHARACTERISTIC_UUID_COMMAND_TX, Frame20(<<0, 0, 0, 0, 0, 1>>)>>
DarkFrame == <<OPPLE_CHARACTERISTIC_UUID_COMMAND_TX, Frame20(<<0, 0, 0, 0, 0, 0>>)>>
BatteryFrame == <<OPPLE_CHARACTERISTIC_UUID_COMMAND_TX, Frame11(39, 16)>>
BatteryZeroFrame == <<OPPLE_CHARACTERISTIC_UUID_COMMAND_TX, Frame11(0, 0)>>
ShortFrame == <<OPPLE_CHARACTERISTIC_UUID_COMMAND_TX, <<128, 0, 5, 0, 1>>>>
RxFrame == <<OPPLE_CHARACTERISTIC_UUID_DATA_RX, Frame20(<<11, 0, 178, 16, 130, 22>>)>>
OtherFrame == <<OTHER_UUID, Frame11(39, 16)>>

\* the notifications a direct call of the handler is tried with
HandlerFrames ==
    {LightFrame, LightHighByteFrame, DarkFrame, BatteryFrame, BatteryZeroFrame,
     ShortFrame, RxFrame, OtherFrame}

\* the notifications the device sends during a session
SessionFrames == {LightFrame, DarkFrame, BatteryFrame, RxFrame}

(***************************************************************************)
(* notification_handler(sender, data): the buffer update.                  *)
(***************************************************************************)
\* slip: a copied line kept its key, the third field gets the second value
MeasurementEntryRepeatsField(parsed_result, current_time_log) ==
    [timestamp |-> current_time_log,
     raw_hex |-> parsed_result.raw_hex,
     RawVal_1 |-> parsed_result.RawVal_1,
     RawVal_2 |-> parsed_result.RawVal_2,
     RawVal_3 |-> parsed_result.RawVal_2,
     RawBattery_mV |-> None,
     App_Lux |-> None, App_CCT |-> None, App_Ra |-> None,
     App_x |-> None, App_y |-> None, App_u |-> None, App_v |-> None,
     App_Battery_Percent |-> None]

\* OPPLE_read_1.py: the entry built for a LIGHT_DETECTED 20-byte packet
MeasurementEntry(parsed_result, current_time_log) ==
    [timestamp |-> current_time_log,
     raw_hex |-> parsed_result.raw_hex,
     RawVal_1 |-> parsed_result.RawVal_1,
     RawVal_2 |-> parsed_result.RawVal_2,
     RawVal_3 |-> parsed_result.RawVal_3,
     RawBattery_mV |-> None,
     App_Lux |-> None, App_CCT |-> None, App_Ra |-> None,
     App_x |-> None, App_y |-> None, App_u |-> None, App_v |-> None,
     App_Battery_Percent |-> None]

\* slip: every parsed 20-byte packet is stored, dark ones included
StoresPacketAlways(parsed_result) == TRUE

\* OPPLE_read_1.py: is a 20-byte packet appended to current_measurements
StoresPacket(parsed_result) ==
    parsed_result.measurement_state = "LIGHT_DETECTED"

\* slip: the "is None" test is missing, the last auxiliary frame wins
AttachesBatteryLastWins(measurements) == measurements # <<>>

\* OPPLE_read_1.py: is the battery value of an 11-byte packet attached
AttachesBattery(measurements) ==
    /\ measurements # <<>>
    /\ measurements[Len(measurements)].RawBattery_mV = None

\* slip: the new record is put in front of the earlier ones
InsertEntryFirst(measurements, entry) == <<entry>> \o measurements

\* slip: the new record replaces the earlier ones
KeepEntryOnly(measurements, entry) == <<entry>>

\* current_measurements.append(entry)
AppendEntry(measurements, entry) == Append(measurements, entry)

\* slip: index 0 for index -1, the battery value goes to the first record
BatteryTargetFirst(measurements) == IF measurements = <<>> THEN 0 ELSE 1

\* current_measurements[-1]: the record a battery value is attached to
BatteryTarget(measurements) == Len(measurements)

\* OPPLE_read_1.py: current_measurements after the handler has run
HandleRead1(measurements, parsed_result, current_time_log) ==
    IF parsed_result.tag = "str" THEN measurements
    ELSE IF parsed_result.packet_type = "20_byte_measurement_or_status"
    THEN IF StoresPacket(parsed_result)
         THEN AppendEntry(measurements, MeasurementEntry(parsed_result, current_time_log))
         ELSE measurements
    ELSE IF parsed_result.packet_type = "11_byte_status_or_battery"
    THEN IF AttachesBattery(measurements)
         THEN [measurements EXCEPT
                  ![BatteryTarget(measurements)].RawBattery_mV =
                      Some(parsed_result.RawBattery_mV)]
         ELSE measurements
    ELSE measurements

\* OPPLE_read.py: the parsed dict itself is stored, with the app placeholders added
ParsedEntry(parsed_result, current_time_log) ==
    [packet_type |-> parsed_result.packet_type,
     raw_hex |-> parsed_result.raw_hex,
     RawVal_1 |-> parsed_result.RawVal_1,
     RawVal_2 |-> parsed_result.RawVal_2,
     RawVal_3 |-> parsed_result.RawVal_3,
     measurement_state |-> parsed_result.measurement_state,
     timestamp |-> current_time_log,
     App_Lux |-> None, App_CCT |-> None, App_Ra |-> None,
     App_x |-> None, App_y |-> None, App_u |-> None, App_v |-> None,
     App_Battery_Percent |-> None]

\* OPPLE_read.py: current_measurements after the handler has run
HandleRead(measurements, parsed_result, current_time_log) ==
    IF parsed_result.tag = "str" THEN measurements
    ELSE IF parsed_result.packet_type = "20_byte_measurement_or_status"
    THEN IF parsed_result.measurement_state = "LIGHT_DETECTED"
         THEN AppendEntry(measurements, ParsedEntry(parsed_result, current_time_log))
         ELSE measurements
    ELSE measurements

\* the whole handler: raw log line, parse, buffer update
notification_handler(sender, data) ==
    LET current_time_log == clock + 1
        parsed_result == parse_opple_data(data, sender)
        after == IF script = "read_1"
                 THEN HandleRead1(current_measurements, parsed_result, current_time_log)
                 ELSE HandleRead(current_measurements, parsed_result, current_time_log)
    IN  /\ clock' = current_time_log
        /\ notification' = <<sender, data>>
        /\ parsed' = parsed_result
        /\ raw_log' = Append(raw_log, [timestamp |-> current_time_log,
                                       length |-> Len(data),
                                       hex |-> Hex(data),
                                       sender |-> sender])
        /\ current_measurements' = after
        /\ measurement_session_data' =
               IF aliased THEN after ELSE measurement_session_data

(***************************************************************************)
(* The handler on its own: notification_handler called with any sender and *)
(* any frame, the buffer starting empty as after the reset at phase start. *)
(***************************************************************************)
InitHandler ==
    /\ script = "read_1"
    /\ pc = "handler"
    /\ phase = 1
    /\ i = 0
    /\ services = <<OPPLE_CHARACTERISTIC_UUID_DATA_RX, OPPLE_CHARACTERISTIC_UUID_COMMAND_TX>>
    /\ char_idx = 2
    /\ is_connected = TRUE
    /\ rx_char_found = TRUE
    /\ tx_char_found = TRUE
    /\ subscribed = {OPPLE_CHARACTERISTIC_UUID_DATA_RX, OPPLE_CHARACTERISTIC_UUID_COMMAND_TX}
    /\ current_measurements = <<>>
    /\ measurement_session_data = <<>>
    /\ aliased = FALSE
    /\ current_mode = None
    /\ current_sample_name = None
    /\ files = <<>>
    /\ raw_log = <<>>
    /\ clock = 0
    /\ notification = <<>>
    /\ parsed = NotParsed
    /\ written = <<>>
    /\ exported = <<>>
    /\ avg_data = None
    /\ cancelled = FALSE
    /\ outcome = ""

HandlerCall ==
    /\ pc = "handler"
    /\ clock < MaxHandlerFrames
    /\ \E f \in HandlerFrames : notification_handler(f[1], f[2])
    /\ UNCHANGED <<script, pc, phase, i, services, char_idx, is_connected,
                   rx_char_found, tx_char_found, subscribed, aliased, files,
                   current_mode, current_sample_name,
                   written, exported, avg_data, cancelled, outcome>>

NextHandler == HandlerCall

SpecHandler == InitHandler /\ [][NextHandler]_vars

(***************************************************************************)
(* save_measurements_to_csv(filename, data_list).                          *)
(***************************************************************************)
FieldSet == {fieldnames[k] : k \in 1..Len(fieldnames)}

\* clean_row = {field: row.get(field) for field in fieldnames}
CleanRow(row) == [f \in FieldSet |-> IF f \in DOMAIN row THEN row[f] ELSE None]

CleanRows(data_list) == [k \in 1..Len(data_list) |-> CleanRow(data_list[k])]

\* slip: the early return is missing, an empty list is written like any other
SkipsExportNever(data_list) == FALSE

\* "if not data_list: return": is the export skipped
SkipsExport(data_list) == data_list = <<>>

\* the file system after the call; io_ok = FALSE is open() raising IOError
save_measurements_to_csv(filename, data_list, io_ok) ==
    IF SkipsExport(data_list)
    THEN /\ files' = files
         /\ exported' = Append(exported, [name |-> filename, rows |-> data_list,
                                          result |-> "no_data"])
    ELSE IF io_ok
    THEN /\ files' = [files EXCEPT ![filename] =
                         Some([header |-> fieldnames, rows |-> CleanRows(data_list)])]
         /\ exported' = Append(exported, [name |-> filename, rows |-> data_list,
                                          result |-> "saved"])
    ELSE /\ files' = files
         /\ exported' = Append(exported, [name |-> filename, rows |-> data_list,
                                          result |-> "io_error"])

(***************************************************************************)
(* calculate_average(measurements) of OPPLE_read.py.  A mean is kept as    *)
(* the pair <<sum, count>> of the division "sum(values) / len(values)".    *)
(***************************************************************************)
keys_to_average == <<"RawVal_1", "RawVal_2", "RawVal_3", "RawBattery_mV">>

\* m[key] of a record, <<>> for None and for a key the record does not have
ValueOrNone(m, key) ==
    IF key \notin DOMAIN m THEN None
    ELSE IF key = "RawBattery_mV" THEN m[key]
    ELSE Some(m[key])

RECURSIVE ValuesOf(_, _)
\* [m[key] for m in measurements if key in m and m[key] is not None]
ValuesOf(measurements, key) ==
    IF measurements = <<>> THEN <<>>
    ELSE ValueOrNone(Head(measurements), key) \o ValuesOf(Tail(measurements), key)

RECURSIVE sum(_)
sum(values) == IF values = <<>> THEN 0 ELSE Head(values) + sum(Tail(values))

\* slip: the sum is divided by the number of records, not of values
AverageOfKeyOverRecords(measurements, key) ==
    LET values == ValuesOf(measurements, key)
    IN  IF values # <<>> THEN Some(<<sum(values), Len(measurements)>>) ELSE None

\* the body of "for key in keys_to_average"
AverageOfKey(measurements, key) ==
    LET values == ValuesOf(measurements, key)
    IN  IF values # <<>> THEN Some(<<sum(values), Len(values)>>) ELSE None

\* an empty list gives {}, a list with records a mean or None for every key
calculate_average(measurements) ==
    IF measurements = <<>> THEN [key \in {} |-> None]
    ELSE [key \in {keys_to_average[k] : k \in 1..Len(keys_to_average)} |->
             AverageOfKey(measurements, key)]

(***************************************************************************)
(* The session scripts.                                                    *)
(***************************************************************************)
\* slip: the first two calls of run_measurement_phase are exchanged
PHASES_Exchanged == <<"2 Layers", "No Filter", "4 Layers">>

\* the phases main() of OPPLE_read_1.py runs, in order
PHASES == <<"No Filter", "2 Layers", "4 Layers">>

\* f"measurements_{phase_name.replace(' ', '_').lower()}.csv"
PhaseFile(phase_name) ==
    CASE phase_name = "No Filter" -> "measurements_no_filter.csv"
      [] phase_name = "2 Layers" -> "measurements_2_layers.csv"
      [] phase_name = "4 Layers" -> "measurements_4_layers.csv"

HalogenFile == "halogen_reference_measurements.csv"

FileNames == {PhaseFile(PHASES[k]) : k \in 1..Len(PHASES)} \cup {HalogenFile}

\* the devices a run may meet: which characteristics, in which order
Devices ==
    {<<OPPLE_CHARACTERISTIC_UUID_DATA_RX, OPPLE_CHARACTERISTIC_UUID_COMMAND_TX>>,
     <<OPPLE_CHARACTERISTIC_UUID_COMMAND_TX, OPPLE_CHARACTERISTIC_UUID_DATA_RX>>,
     <<OTHER_UUID, OPPLE_CHARACTERISTIC_UUID_COMMAND_TX>>,
     <<OPPLE_CHARACTERISTIC_UUID_DATA_RX>>,
     <<OTHER_UUID>>}

\* the points where the main task is suspended at an await inside the
\* connection, so that the event loop runs notification callbacks
AwaitPoints ==
    {"start_notify", "disconnect_missing", "write_start", "dwell", "write_stop",
     "settle", "stop_notify_tx", "stop_notify_rx", "disconnect"}

\* the points of a phase's command loop
PollingPoints == {"write_start", "dwell", "write_stop", "settle"}

InitSession(s) ==
    /\ script = s
    /\ pc = "scan"
    /\ phase = 0
    /\ i = 0
    /\ services \in Devices
    /\ char_idx = 0
    /\ is_connected = FALSE
    /\ rx_char_found = FALSE
    /\ tx_char_found = FALSE
    /\ subscribed = {}
    /\ current_measurements = <<>>
    /\ measurement_session_data = <<>>
    /\ aliased = FALSE
    /\ current_mode = None
    /\ current_sample_name = None
    /\ files = [n \in FileNames |-> None]
    /\ raw_log = <<>>
    /\ clock = 0
    /\ notification = <<>>
    /\ parsed = NotParsed
    /\ written = <<>>
    /\ exported = <<>>
    /\ avg_data = None
    /\ cancelled = FALSE
    /\ outcome = ""

handlerVars == <<current_measurements, measurement_session_data, raw_log, clock, notification, parsed>>
phaseVars == <<phase, i, aliased>>
menuVars == <<current_mode, current_sample_name>>
diskVars == <<files, exported, avg_data>>
foundVars == <<char_idx, rx_char_found, tx_char_found>>

\* asyncio.run(main()) ends; c: the main task had been cancelled by Ctrl+C
Done(c) ==
    /\ pc' = "done"
    /\ outcome' = IF c THEN "KeyboardInterrupt" ELSE "returned"

\* slip: no finally block, main() just ends
EnterFinallySkipped(c) == Done(c)

\* the finally block of main(), up to its first await
EnterFinally(c) ==
    IF is_connected
    THEN /\ outcome' = outcome
         /\ pc' = IF script = "read"
                  THEN "stop_notify_rx"
                  ELSE IF tx_char_found THEN "stop_notify_tx"
                  ELSE IF rx_char_found THEN "stop_notify_rx"
                  ELSE "disconnect"
    ELSE Done(c)

\* slip: the phase starts without clearing the buffer
StartPhaseKeepsBuffer(p) ==
    /\ phase' = p
    /\ i' = 0
    /\ current_measurements' = current_measurements
    /\ aliased' = FALSE
    /\ pc' = "prompt"
    /\ outcome' = outcome

\* run_measurement_phase: "current_measurements = []", then the input() prompt
StartPhase(p) ==
    /\ phase' = p
    /\ i' = 0
    /\ current_measurements' = <<>>
    /\ aliased' = FALSE
    /\ pc' = "prompt"
    /\ outcome' = outcome

\* scanner.discover returns
ScanDone ==
    /\ pc = "scan"
    /\ \E found \in BOOLEAN :
          IF found THEN pc' = "connect" /\ outcome' = outcome ELSE Done(FALSE)
    /\ UNCHANGED <<script, services, is_connected, subscribed, written, cancelled>>
    /\ UNCHANGED <<handlerVars, phaseVars, menuVars, diskVars, foundVars>>

\* first index j >= from of a characteristic the enumeration loop handles, 0 if none
NextMatch(from) ==
    LET hits == {j \in from..Len(services) :
                    services[j] \in {OPPLE_CHARACTERISTIC_UUID_DATA_RX,
                                     OPPLE_CHARACTERISTIC_UUID_COMMAND_TX}}
    IN  IF hits = {} THEN 0 ELSE CHOOSE j \in hits : \A k \in hits : j <= k

\* is the session given up after the enumeration ("return" after disconnect)
MissingCharacteristic(rx, tx) ==
    IF script = "read_1" THEN ~tx ELSE ~(rx \/ tx)

\* "for char in service.characteristics" from index from on, up to the next await
Enumerate(from, rx, tx) ==
    LET j == NextMatch(from)
    IN  IF j # 0
        THEN /\ char_idx' = j
             /\ rx_char_found' = (rx \/ services[j] = OPPLE_CHARACTERISTIC_UUID_DATA_RX)
             /\ tx_char_found' = (tx \/ services[j] = OPPLE_CHARACTERISTIC_UUID_COMMAND_TX)
             /\ pc' = "start_notify"
             /\ outcome' = outcome
             /\ UNCHANGED <<phaseVars, current_measurements>>
        ELSE /\ char_idx' = Len(services) + 1
             /\ rx_char_found' = rx
             /\ tx_char_found' = tx
             /\ IF MissingCharacteristic(rx, tx)
                THEN /\ pc' = "disconnect_missing"
                     /\ outcome' = outcome
                     /\ UNCHANGED <<phaseVars, current_measurements>>
                ELSE IF script = "read_1"
                THEN StartPhase(1)
                ELSE /\ pc' = "menu"
                     /\ outcome' = outcome
                     /\ UNCHANGED <<phaseVars, current_measurements>>

\* slip: "if client.is_connected" is not tested and a raising connect() is
\* swallowed, the enumeration starts whatever connect() did
ConnectDoneUnchecked ==
    /\ pc = "connect"
    /\ \E result \in {"connected", "not_connected", "raised"} :
          /\ is_connected' = (result = "connected")
          /\ Enumerate(1, FALSE, FALSE)
    /\ UNCHANGED <<script, services, subscribed, written, cancelled, diskVars, menuVars>>
    /\ UNCHANGED <<measurement_session_data, raw_log, clock, notification, parsed>>

\* client.connect() returns or raises
ConnectDone ==
    /\ pc = "connect"
    /\ \E result \in {"connected", "not_connected", "raised"} :
          IF result = "connected"
          THEN /\ is_connected' = TRUE
               /\ Enumerate(1, FALSE, FALSE)
          ELSE /\ is_connected' = FALSE
               /\ Done(FALSE)
               /\ UNCHANGED <<foundVars, phaseVars, current_measurements>>
    /\ UNCHANGED <<script, services, subscribed, written, cancelled, diskVars, menuVars>>
    /\ UNCHANGED <<measurement_session_data, raw_log, clock, notification, parsed>>

\* client.start_notify(char.uuid, notification_handler) returns or raises
StartNotifyDone ==
    /\ pc = "start_notify"
    /\ \E ok \in BOOLEAN :
          IF ok
          THEN /\ subscribed' = subscribed \cup {services[char_idx]}
               /\ Enumerate(char_idx + 1, rx_char_found, tx_char_found)
          ELSE /\ subscribed' = subscribed
               /\ EnterFinally(FALSE)
               /\ UNCHANGED <<foundVars, phaseVars, current_measurements>>
    /\ UNCHANGED <<script, services, is_connected, written, cancelled, diskVars, menuVars>>
    /\ UNCHANGED <<measurement_session_data, raw_log, clock, notification, parsed>>

\* "await client.disconnect(); return" when a characteristic is missing
DisconnectMissingDone ==
    /\ pc = "disconnect_missing"
    /\ \E ok \in BOOLEAN :
          IF ok
          THEN /\ is_connected' = FALSE
               /\ subscribed' = {}
               /\ Done(FALSE)
          ELSE /\ UNCHANGED <<is_connected, subscribed>>
               /\ EnterFinally(FALSE)
    /\ UNCHANGED <<script, services, written, cancelled>>
    /\ UNCHANGED <<handlerVars, phaseVars, menuVars, diskVars, foundVars>>

\* slip: save_measurements_to_csv has no "except IOError", a failing open()
\* leaves the phase and is caught by main()
FinalizeFatalExport(io_ok) ==
    IF script = "read_1"
    THEN /\ save_measurements_to_csv(PhaseFile(PHASES[phase]), current_measurements, io_ok)
         /\ avg_data' = avg_data
         /\ measurement_session_data' = measurement_session_data
         /\ IF phase < Len(PHASES) /\ (io_ok \/ SkipsExport(current_measurements))
            THEN StartPhase(phase + 1)
            ELSE /\ EnterFinally(FALSE)
                 /\ UNCHANGED <<phaseVars, current_measurements>>
    ELSE /\ measurement_session_data' = current_measurements
         /\ aliased' = TRUE
         /\ avg_data' = Some(calculate_average(current_measurements))
         /\ save_measurements_to_csv(HalogenFile, current_measurements, io_ok)
         /\ IF io_ok \/ SkipsExport(current_measurements)
            THEN pc' = "menu" /\ outcome' = outcome
            ELSE EnterFinally(FALSE)
         /\ UNCHANGED <<phase, i, current_measurements>>

\* what follows the "for i in range(num_measurements)" loop of a phase
Finalize(io_ok) ==
    IF script = "read_1"
    THEN \* run_measurement_phase returns; main() starts the next phase or ends
         /\ save_measurements_to_csv(PhaseFile(PHASES[phase]), current_measurements, io_ok)
         /\ avg_data' = avg_data
         /\ measurement_session_data' = measurement_session_data
         /\ IF phase < Len(PHASES)
            THEN StartPhase(phase + 1)
            ELSE /\ EnterFinally(FALSE)
                 /\ UNCHANGED <<phaseVars, current_measurements>>
    ELSE \* measurement_session_data["halogen_reference"] = current_measurements
         /\ measurement_session_data' = current_measurements
         /\ aliased' = TRUE
         /\ avg_data' = Some(calculate_average(current_measurements))
         /\ save_measurements_to_csv(HalogenFile, current_measurements, io_ok)
         /\ pc' = "menu"
         /\ outcome' = outcome
         /\ UNCHANGED <<phase, i, current_measurements>>

\* slip: the exception is swallowed and the loop goes on ("pass" for "break")
WriteFailedSwallowed(io_ok) ==
    /\ pc' = IF pc = "write_start" THEN "dwell" ELSE "settle"
    /\ outcome' = outcome
    /\ UNCHANGED <<phaseVars, diskVars, current_measurements, measurement_session_data>>

\* write_gatt_char raised inside the loop
WriteFailed(io_ok) ==
    IF script = "read_1"
    THEN \* "except Exception ... break"
         Finalize(io_ok)
    ELSE \* no handler in the loop: "except Exception" of main(), then finally
         /\ EnterFinally(FALSE)
         /\ UNCHANGED <<phaseVars, diskVars, current_measurements, measurement_session_data>>

\* can a write to the command characteristic succeed on this device
Writable == \E j \in 1..Len(services) : services[j] = OPPLE_CHARACTERISTIC_UUID_COMMAND_TX

\* one write_gatt_char call of the loop, from its await to the next suspension
WriteCommand(at, data, next) ==
    /\ pc = at
    /\ \E ok \in BOOLEAN, io_ok \in BOOLEAN :
          /\ ok => Writable
          /\ written' = Append(written, [data |-> data, ok |-> ok])
          /\ IF ok
             THEN /\ pc' = next
                  /\ outcome' = outcome
                  /\ UNCHANGED <<phaseVars, diskVars, current_measurements,
                                 measurement_session_data>>
             ELSE WriteFailed(io_ok)
    /\ UNCHANGED <<script, services, is_connected, subscribed, cancelled>>
    /\ UNCHANGED <<raw_log, clock, notification, parsed, menuVars, foundVars>>

\* the operator presses Enter at the input() prompt of run_measurement_phase
OperatorReady ==
    /\ pc = "prompt"
    /\ pc' = "write_start"
    /\ written' = <<>>
    /\ UNCHANGED <<script, services, is_connected, subscribed, cancelled, outcome>>
    /\ UNCHANGED <<handlerVars, phaseVars, menuVars, diskVars, foundVars>>

WriteStart == WriteCommand("write_start", OPPLE_COMMAND_START_MEASUREMENT, "dwell")

\* asyncio.sleep(polling_interval - 0.1) ends
Dwell ==
    /\ pc = "dwell"
    /\ pc' = "write_stop"
    /\ UNCHANGED <<script, services, is_connected, subscribed, written, cancelled, outcome>>
    /\ UNCHANGED <<handlerVars, phaseVars, menuVars, diskVars, foundVars>>

\* slip: the second write of an iteration sends the start command again
WriteStopSendsStart == WriteCommand("write_stop", OPPLE_COMMAND_START_MEASUREMENT, "settle")

WriteStop == WriteCommand("write_stop", OPPLE_COMMAND_STOP_MEASUREMENT, "settle")

\* asyncio.sleep(0.1) ends: next iteration, or the loop is over
Settle ==
    /\ pc = "settle"
    /\ \E io_ok \in BOOLEAN :
          IF i + 1 < NumMeasurements
          THEN /\ i' = i + 1
               /\ pc' = "write_start"
               /\ outcome' = outcome
               /\ UNCHANGED <<phase, aliased, diskVars, current_measurements,
                              measurement_session_data>>
          ELSE Finalize(io_ok)
    /\ UNCHANGED <<script, services, is_connected, subscribed, written, cancelled>>
    /\ UNCHANGED <<raw_log, clock, notification, parsed, menuVars, foundVars>>

\* OPPLE_read.py: the operator answers the menu
MenuChoice ==
    /\ pc = "menu"
    /\ \E choice \in {"1", "2", "3", "4", "5", "x"} :
          /\ phase >= MaxMenuChoices => choice = "5"
          /\ phase' = phase + 1
          /\ IF choice = "1"
             THEN /\ current_mode' = Some("halogen_reference")
                  /\ current_sample_name' = current_sample_name
                  /\ current_measurements' = <<>>
                  /\ aliased' = FALSE
                  /\ i' = 0
                  /\ written' = <<>>
                  /\ pc' = "write_start"
                  /\ outcome' = outcome
             ELSE IF choice = "5"
             THEN /\ EnterFinally(FALSE)
                  /\ UNCHANGED <<menuVars, current_measurements, aliased, i, written>>
             ELSE /\ current_mode' =
                        IF choice = "2" THEN Some("solar_reference")
                        ELSE IF choice = "3" THEN Some("sample_halogen")
                        ELSE IF choice = "4" THEN Some("sample_solar")
                        ELSE current_mode
                  /\ current_sample_name' =
                        IF choice \in {"3", "4"} THEN Some("sample") ELSE current_sample_name
                  /\ pc' = "menu"
                  /\ outcome' = outcome
                  /\ UNCHANGED <<current_measurements, aliased, i, written>>
    /\ UNCHANGED <<script, services, is_connected, subscribed, cancelled>>
    /\ UNCHANGED <<measurement_session_data, raw_log, clock, notification, parsed>>
    /\ UNCHANGED <<diskVars, foundVars>>

\* the transport delivers a notification of a subscribed characteristic
Notify ==
    /\ pc \in AwaitPoints
    /\ clock < MaxNotifications
    /\ \E f \in SessionFrames :
          /\ f[1] \in subscribed
          /\ notification_handler(f[1], f[2])
    /\ UNCHANGED <<script, pc, services, is_connected, subscribed, written,
                   cancelled, outcome>>
    /\ UNCHANGED <<phaseVars, menuVars, diskVars, foundVars>>

\* Ctrl+C: asyncio cancels the main task, CancelledError is raised at its await
\* (or KeyboardInterrupt inside input()); neither is an Exception
Interrupt ==
    /\ pc \in {"scan", "connect", "start_notify", "disconnect_missing", "prompt", "menu"}
              \cup PollingPoints
    /\ ~cancelled
    /\ cancelled' = TRUE
    /\ IF pc = "scan" THEN Done(TRUE) ELSE EnterFinally(TRUE)
    /\ UNCHANGED <<script, services, is_connected, subscribed, written>>
    /\ UNCHANGED <<handlerVars, phaseVars, menuVars, diskVars, foundVars>>

\* the characteristic whose stop_notify is awaited
Stopping ==
    IF pc = "stop_notify_tx" THEN OPPLE_CHARACTERISTIC_UUID_COMMAND_TX
    ELSE OPPLE_CHARACTERISTIC_UUID_DATA_RX

\* slip: no try around the stop_notify calls, a raising call leaves main()
AfterStopNotifyUncaught(ok) ==
    IF ~ok THEN "done"
    ELSE IF script = "read_1"
    THEN IF pc = "stop_notify_tx" /\ rx_char_found THEN "stop_notify_rx" ELSE "disconnect"
    ELSE IF pc = "stop_notify_rx" THEN "stop_notify_tx" ELSE "disconnect"

\* where the finally block goes after a stop_notify call
AfterStopNotify(ok) ==
    IF script = "read_1"
    THEN \* one try around both calls, TX first, each only if found
         IF pc = "stop_notify_tx" /\ ok /\ rx_char_found
         THEN "stop_notify_rx" ELSE "disconnect"
    ELSE \* a try around each call, RX first
         IF pc = "stop_notify_rx" THEN "stop_notify_tx" ELSE "disconnect"

\* client.stop_notify returns or raises
StopNotifyDone ==
    /\ pc \in {"stop_notify_tx", "stop_notify_rx"}
    /\ \E ok \in BOOLEAN :
          /\ ok => Stopping \in subscribed
          /\ subscribed' = IF ok THEN subscribed \ {Stopping} ELSE subscribed
          /\ pc' = AfterStopNotify(ok)
    /\ UNCHANGED <<script, services, is_connected, written, cancelled, outcome>>
    /\ UNCHANGED <<handlerVars, phaseVars, menuVars, diskVars, foundVars>>

\* the final client.disconnect() returns or raises
DisconnectDone ==
    /\ pc = "disconnect"
    /\ \E ok \in BOOLEAN :
          IF ok
          THEN /\ is_connected' = FALSE
               /\ subscribed' = {}
               /\ Done(cancelled)
          ELSE /\ UNCHANGED <<is_connected, subscribed>>
               /\ pc' = "done"
               /\ outcome' = "raised"
    /\ UNCHANGED <<script, services, written, cancelled>>
    /\ UNCHANGED <<handlerVars, phaseVars, menuVars, diskVars, foundVars>>

Init == InitSession("read_1")

Next ==
    \/ ScanDone
    \/ ConnectDone
    \/ StartNotifyDone
    \/ DisconnectMissingDone
    \/ OperatorReady
    \/ WriteStart
    \/ Dwell
    \/ WriteStop
    \/ Settle
    \/ Notify
    \/ Interrupt
    \/ StopNotifyDone
    \/ DisconnectDone

\* a run of OPPLE_read_1.py
Spec == Init /\ [][Next]_vars

InitMenu == InitSession("read")

NextMenu ==
    \/ ScanDone
    \/ ConnectDone
    \/ StartNotifyDone
    \/ DisconnectMissingDone
    \/ MenuChoice
    \/ WriteStart
    \/ Dwell
    \/ WriteStop
    \/ Settle
    \/ Notify
    \/ Interrupt
    \/ StopNotifyDone
    \/ DisconnectDone

\* a run of OPPLE_read.py
SpecMenu == InitMenu /\ [][NextMenu]_vars

InitScripts == InitSession("read_1") \/ InitSession("read")

NextScripts ==
    \/ ScanDone
    \/ ConnectDone
    \/ StartNotifyDone
    \/ DisconnectMissingDone
    \/ OperatorReady
    \/ MenuChoice
    \/ WriteStart
    \/ Dwell
    \/ WriteStop
    \/ Settle
    \/ Notify
    \/ Interrupt
    \/ StopNotifyDone
    \/ DisconnectDone

\* a run of either script
SpecScripts == InitScripts /\ [][NextScripts]_vars

(***************************************************************************)
(* parse_opple_data on its own: a frame is drawn, then parsed.             *)
(***************************************************************************)
\* longest frame tried
MaxFrameLen == 21

\* values of the last six bytes of a frame
ByteSamples == {0, 1, 255}

\* value of every earlier byte of a frame
FillBytes == {0, 128}

Senders ==
    {OPPLE_CHARACTERISTIC_UUID_COMMAND_TX, OPPLE_CHARACTERISTIC_UUID_DATA_RX, OTHER_UUID}

\* len bytes: the last six (or fewer) from tail, fill before them
MakeFrame(len, fill, tail) ==
    [k \in 1..len |-> IF k > len - 6 THEN tail[k - (len - 6)] ELSE fill]

\* the <<sender, data>> pairs parse_opple_data is tried with
ClassifyInputs ==
    {<<u, MakeFrame(len, fill, tail)>> :
        u \in Senders, len \in 0..MaxFrameLen, fill \in FillBytes,
        tail \in [1..6 -> ByteSamples]}
    \cup HandlerFrames

InitClassify ==
    /\ script = "read_1"
    /\ pc = "classify"
    /\ phase = 1
    /\ i = 0
    /\ services = <<OPPLE_CHARACTERISTIC_UUID_DATA_RX, OPPLE_CHARACTERISTIC_UUID_COMMAND_TX>>
    /\ char_idx = 2
    /\ is_connected = TRUE
    /\ rx_char_found = TRUE
    /\ tx_char_found = TRUE
    /\ subscribed = {OPPLE_CHARACTERISTIC_UUID_DATA_RX, OPPLE_CHARACTERISTIC_UUID_COMMAND_TX}
    /\ current_measurements = <<>>
    /\ measurement_session_data = <<>>
    /\ aliased = FALSE
    /\ current_mode = None
    /\ current_sample_name = None
    /\ files = <<>>
    /\ raw_log = <<>>
    /\ clock = 0
    /\ notification \in ClassifyInputs
    /\ parsed = NotParsed
    /\ written = <<>>
    /\ exported = <<>>
    /\ avg_data = None
    /\ cancelled = FALSE
    /\ outcome = ""

\* parsed_result = parse_opple_data(data, sender_uuid)
Classify ==
    /\ pc = "classify"
    /\ parsed = NotParsed
    /\ parsed' = parse_opple_data(notification[2], notification[1])
    /\ UNCHANGED <<script, pc, phase, i, services, char_idx, is_connected,
                   rx_char_found, tx_char_found, subscribed, current_measurements,
                   measurement_session_data, aliased, current_mode,
                   current_sample_name, files, raw_log, clock, notification,
                   written, exported, avg_data, cancelled, outcome>>

NextClassify == Classify

SpecClassify == InitClassify /\ [][NextClassify]_vars

(***************************************************************************)
(* calculate_average on its own: a list of records is drawn, then          *)
(* averaged.                                                               *)
(***************************************************************************)
\* longest list tried
MaxRecords == 3

\* records as OPPLE_read_1.py builds them, with and without a battery value,
\* and the record OPPLE_read.py stores, which has no battery key
AverageRecords ==
    {[MeasurementEntry(Parse20(LightFrame[2]), 1) EXCEPT
         !.RawVal_1 = a, !.RawVal_3 = c, !.RawBattery_mV = b] :
        a \in {0, 11, 65535}, c \in {0, 5762}, b \in {None, Some(0), Some(10000)}}
    \cup {ParsedEntry(Parse20(LightFrame[2]), 1)}

AverageInputs == UNION {[1..n -> AverageRecords] : n \in 0..MaxRecords}

InitAverage ==
    /\ script = "read"
    /\ pc = "average"
    /\ phase = 1
    /\ i = 0
    /\ services = <<OPPLE_CHARACTERISTIC_UUID_DATA_RX, OPPLE_CHARACTERISTIC_UUID_COMMAND_TX>>
    /\ char_idx = 2
    /\ is_connected = TRUE
    /\ rx_char_found = TRUE
    /\ tx_char_found = TRUE
    /\ subscribed = {OPPLE_CHARACTERISTIC_UUID_DATA_RX, OPPLE_CHARACTERISTIC_UUID_COMMAND_TX}
    /\ current_measurements \in AverageInputs
    /\ measurement_session_data = <<>>
    /\ aliased = FALSE
    /\ current_mode = Some("halogen_reference")
    /\ current_sample_name = None
    /\ files = [n \in FileNames |-> None]
    /\ raw_log = <<>>
    /\ clock = 0
    /\ notification = <<>>
    /\ parsed = NotParsed
    /\ written = <<>>
    /\ exported = <<>>
    /\ avg_data = None
    /\ cancelled = FALSE
    /\ outcome = ""

\* avg_data = calculate_average(current_measurements)
Average ==
    /\ pc = "average"
    /\ avg_data = None
    /\ avg_data' = Some(calculate_average(current_measurements))
    /\ UNCHANGED <<script, pc, phase, i, services, char_idx, is_connected,
                   rx_char_found, tx_char_found, subscribed, current_measurements,
                   measurement_session_data, aliased, current_mode,
                   current_sample_name, files, raw_log, clock, notification,
                   parsed, written, exported, cancelled, outcome>>

NextAverage == Average

SpecAverage == InitAverage /\ [][NextAverage]_vars

(***************************************************************************)
(* Vocabulary of the properties.                                           *)
(***************************************************************************)
\* a buffered record or exported row whose three raw fields are all zero
AllZero(rec) == rec.RawVal_1 = 0 /\ rec.RawVal_2 = 0 /\ rec.RawVal_3 = 0

NoDarkIn(rows) == \A k \in 1..Len(rows) : ~AllZero(rows[k])

\* the raw log line of a notification
LogLineOf(f, k) ==
    /\ raw_log[k].sender = f[1]
    /\ raw_log[k].hex = Hex(f[2])
    /\ raw_log[k].length = Len(f[2])

\* the notifications delivered so far are exactly fs, in this order
Delivered(fs) ==
    /\ Len(raw_log) = Len(fs)
    /\ \A k \in 1..Len(fs) : LogLineOf(fs[k], k)

\* a notification is a 20-byte frame of the command characteristic
IsPrimary(n) ==
    n # <<>> /\ n[1] = OPPLE_CHARACTERISTIC_UUID_COMMAND_TX /\ Len(n[2]) = 20

\* a notification is an 11-byte frame of the command characteristic
IsAuxiliary(n) ==
    n # <<>> /\ n[1] = OPPLE_CHARACTERISTIC_UUID_COMMAND_TX /\ Len(n[2]) = 11

\* the step is a call of notification_handler
HandlerStep == clock' = clock + 1

\* big-endian value of bytes 8..9 of an 11-byte frame
BatteryOf(data) == 256 * data[9] + data[10]

\* the step is a write_gatt_char call that raised
WriteFailsStep ==
    /\ Len(written') = Len(written) + 1
    /\ ~written'[Len(written')].ok

\* the step calls save_measurements_to_csv
ExportStep == Len(exported') = Len(exported) + 1

LastExport == exported[Len(exported)]

(***************************************************************************)
(* C1.  Dark-drop law: whatever frames the handler has been given, the     *)
(* phase buffer holds no record whose three raw fields are all zero, and   *)
(* neither does any list handed to the export or any file written.         *)
(***************************************************************************)
C1_DarkDropLaw ==
    /\ NoDarkIn(current_measurements)
    /\ \A k \in 1..Len(exported) : NoDarkIn(exported[k].rows)
    /\ \A n \in FileNames : files[n] # None => NoDarkIn(files[n][1].rows)

\* a light and a dark frame were delivered in phase 1 and its file was saved
C1_Witness ==
    /\ \E k \in 1..Len(raw_log) : LogLineOf(DarkFrame, k)
    /\ clock = 2
    /\ phase = 2
    /\ pc = "prompt"
    /\ files[PhaseFile(PHASES[1])] # None

(***************************************************************************)
(* C2.  Association law, first write wins: an 11-byte frame arriving when  *)
(* the last record's battery field is null sets exactly that field to the  *)
(* frame's value; when the field is already set (a second auxiliary frame  *)
(* before any new primary frame) the whole buffer stays as it is.          *)
(***************************************************************************)
C2_AssociationLaw ==
    [][(HandlerStep /\ IsAuxiliary(notification') /\ current_measurements # <<>>) =>
          LET n == Len(current_measurements)
          IN  IF current_measurements[n].RawBattery_mV = None
              THEN current_measurements' =
                      [current_measurements EXCEPT
                          ![n].RawBattery_mV = Some(BatteryOf(notification'[2]))]
              ELSE current_measurements' = current_measurements]_vars

\* light, battery 10000, battery 0: the record keeps the first value
C2_Witness ==
    /\ Delivered(<<LightFrame, BatteryFrame, BatteryZeroFrame>>)
    /\ Len(current_measurements) = 1
    /\ current_measurements[1].RawBattery_mV = Some(10000)

(***************************************************************************)
(* C3.  Once a later 20-byte frame (LIGHT_DETECTED or DARK) has been       *)
(* delivered after a record was created, no auxiliary frame modifies that  *)
(* record.                                                                 *)
(***************************************************************************)
\* a 20-byte command-channel frame was delivered after rec was created
LaterPrimary(rec) ==
    \E k \in 1..Len(raw_log) :
        /\ raw_log[k].timestamp > rec.timestamp
        /\ raw_log[k].sender = OPPLE_CHARACTERISTIC_UUID_COMMAND_TX
        /\ raw_log[k].length = 20

C3_NoLateAssociation ==
    [][(HandlerStep /\ IsAuxiliary(notification')) =>
          \A k \in 1..Len(current_measurements) :
              LaterPrimary(current_measurements[k]) =>
                  current_measurements'[k] = current_measurements[k]]_vars

(***************************************************************************)
(* C4.  Cancellation: an operator interrupt during the command loop of a   *)
(* phase finalizes the phase, and the export is made with every record     *)
(* buffered so far.                                                        *)
(***************************************************************************)
C4_InterruptExports ==
    [][(pc \in PollingPoints /\ ~cancelled /\ cancelled'
            /\ current_measurements # <<>>) =>
          /\ ExportStep
          /\ exported'[Len(exported')].rows = current_measurements]_vars

\* after the interrupt no export is made at all
C4_NoExportAfterInterrupt == [][cancelled => exported' = exported]_vars

(***************************************************************************)
(* C5.  Fail-fast: once a start or stop write has failed, no further       *)
(* command is written in that command loop; a failed write is the last     *)
(* write of its phase.                                                     *)
(***************************************************************************)
C5_FailFast == \A k \in 1..(Len(written) - 1) : written[k].ok

\* OPPLE_read_1.py: the first start of phase 1 failed, phase 2 is prompting
C5_Witness ==
    /\ script = "read_1"
    /\ phase = 2
    /\ pc = "prompt"
    /\ Len(written) = 1
    /\ ~written[1].ok

(***************************************************************************)
(* C6.  A failed command write still finalizes the phase: the buffer as it *)
(* is at the failure is handed to the export.                              *)
(***************************************************************************)
C6_WriteFailureExports ==
    [][(WriteFailsStep /\ current_measurements # <<>>) =>
          /\ ExportStep
          /\ exported'[Len(exported')].rows = current_measurements]_vars

(***************************************************************************)
(* C7.  Phase independence: after a failed command write the controller    *)
(* goes on to the next phase (the next prompt, or the menu again).         *)
(***************************************************************************)
C7_NextPhaseAfterFailure ==
    [][(WriteFailsStep /\ (script = "read_1" => phase < Len(PHASES))) =>
          pc' \in {"prompt", "menu"}]_vars

(***************************************************************************)
(* C8.  No mutation after FINALIZED: once a phase's list has been exported *)
(* and as long as no new phase has rebound it, the list does not change.   *)
(***************************************************************************)
\* current_measurements is the list of the phase exported last
ExportedList ==
    /\ exported # <<>>
    /\ LastExport.result = "saved"
    /\ IF script = "read_1"
       THEN phase \in 1..Len(PHASES) /\ LastExport.name = PhaseFile(PHASES[phase])
       ELSE aliased

C8_FinalizedListFrozen ==
    [][(ExportedList /\ ExportedList') =>
          current_measurements' = current_measurements]_vars

(***************************************************************************)
(* C9.  Exporting an empty buffer writes the phase's file with the header  *)
(* row and no data row.                                                    *)
(***************************************************************************)
C9_EmptyExportWritesHeader ==
    \A k \in 1..Len(exported) :
        exported[k].rows = <<>> =>
            /\ files[exported[k].name] # None
            /\ files[exported[k].name][1].header = fieldnames
            /\ files[exported[k].name][1].rows = <<>>

\* C9 as amended: exporting an empty buffer raises no error and writes
\* nothing, neither a file nor a header row; the call only reports "no data"
C9_EmptyExportWritesNothing ==
    [][(ExportStep /\ exported'[Len(exported')].rows = <<>>) =>
          /\ files' = files
          /\ exported'[Len(exported')].result = "no_data"
          /\ pc' \in {"prompt", "menu", "stop_notify_tx", "stop_notify_rx", "disconnect"}]_vars

\* phase 1 ended with an empty buffer: no file
C9_Witness ==
    /\ exported # <<>>
    /\ exported[1].rows = <<>>
    /\ exported[1].name = PhaseFile(PHASES[1])
    /\ files[PhaseFile(PHASES[1])] = None
    /\ phase = 2

(***************************************************************************)
(* C10.  End to end: light, auxiliary, dark, light, delivered to an empty  *)
(* buffer, leave exactly two records in delivery order, the first with the *)
(* auxiliary frame's battery value and the second with none.               *)
(***************************************************************************)
LightFrames == {LightFrame, LightHighByteFrame}
AuxiliaryFrames == {BatteryFrame, BatteryZeroFrame}

C10_EndToEnd ==
    \A l1 \in LightFrames, a \in AuxiliaryFrames, l2 \in LightFrames :
        Delivered(<<l1, a, DarkFrame, l2>>) =>
            /\ Len(current_measurements) = 2
            /\ current_measurements[1].timestamp = 1
            /\ current_measurements[1].raw_hex = Hex(l1[2])
            /\ current_measurements[1].RawBattery_mV = Some(BatteryOf(a[2]))
            /\ current_measurements[2].timestamp = 4
            /\ current_measurements[2].raw_hex = Hex(l2[2])
            /\ current_measurements[2].RawBattery_mV = None

C10_Witness ==
    /\ Delivered(<<LightFrame, BatteryFrame, DarkFrame, LightHighByteFrame>>)
    /\ Len(current_measurements) = 2

(***************************************************************************)
(* Properties of parse_opple_data, checked under SpecClassify.             *)
(***************************************************************************)
\* the drawn frame has been parsed
Classified == pc = "classify" /\ parsed # NotParsed

\* the variant a return value of parse_opple_data stands for
Variant(p) ==
    IF p.tag = "str" THEN p.prefix
    ELSE IF p.tag = "none" THEN "none"
    ELSE IF p.packet_type = "20_byte_measurement_or_status" THEN "PrimarySample"
    ELSE IF p.packet_type = "11_byte_status_or_battery" THEN "AuxiliarySample"
    ELSE "UnrecognizedFrame"

\* the variant that belongs to a channel and a byte length
VariantOf(sender, len) ==
    IF sender = OPPLE_CHARACTERISTIC_UUID_COMMAND_TX
    THEN IF len = 20 THEN "PrimarySample"
         ELSE IF len = 11 THEN "AuxiliarySample"
         ELSE "UnrecognizedFrame"
    ELSE IF sender = OPPLE_CHARACTERISTIC_UUID_DATA_RX THEN "UnrecognizedFrame"
    ELSE "INFO"

\* C11: the variant of the decoded record is determined by the channel and the
\* byte length of the frame alone, whatever the payload bytes: on the command
\* channel length 20 gives a PrimarySample, length 11 an AuxiliarySample and
\* every other length an UnrecognizedFrame.
C11_VariantByChannelAndLength ==
    Classified => Variant(parsed) = VariantOf(notification[1], Len(notification[2]))

\* a 21-byte frame of the command channel, nonzero payload, was decoded as
\* an UnrecognizedFrame
C11_Witness ==
    /\ Classified
    /\ notification[1] = OPPLE_CHARACTERISTIC_UUID_COMMAND_TX
    /\ Len(notification[2]) = 21
    /\ notification[2][21] = 255
    /\ Variant(parsed) = "UnrecognizedFrame"

\* bytes 14..19 of a 20-byte frame (positions 15..20 here)
Payload(data) == SubSeq(data, 15, 20)

\* C12: a 20-byte frame of the command channel is DARK if and only if its
\* bytes 14..19 are all zero and LIGHT_DETECTED if any of the six is nonzero;
\* bytes 0..13 play no part.
C12_DarkIffPayloadZero ==
    (Classified /\ IsPrimary(notification)) =>
        /\ parsed.tag = "dict"
        /\ parsed.measurement_state = "DARK"
               <=> \A k \in 15..20 : notification[2][k] = 0
        /\ parsed.measurement_state = "LIGHT_DETECTED"
               <=> \E k \in 15..20 : notification[2][k] # 0

\* a frame with nonzero bytes before offset 14 and a zero payload is DARK
C12_Witness ==
    /\ Classified
    /\ IsPrimary(notification)
    /\ notification[2][1] = 128
    /\ Payload(notification[2]) = <<0, 0, 0, 0, 0, 0>>
    /\ parsed.measurement_state = "DARK"

C14_BigEndianBattery ==
    (Classified /\ IsAuxiliary(notification)) =>
        LET b == notification[2] IN
        /\ parsed.tag = "dict"
        /\ parsed.RawBattery_mV = 256 * b[9] + b[10]
        /\ (b[9] = 39 /\ b[10] = 16) => parsed.RawBattery_mV = 10000

\* the worked example has been parsed
C14_Witness ==
    /\ Classified
    /\ notification = BatteryFrame
    /\ parsed.RawBattery_mV = 10000

\* C15 (parse_opple_data is idempotent and stateless) has no formula:
\* parse_opple_data is an operator of its two arguments here, so two of its
\* values for the same arguments are equal by definition.

(***************************************************************************)
(* Order of the buffer, checked under SpecHandler.                         *)
(***************************************************************************)
\* the record was made from the k-th notification delivered
MadeFrom(rec, k) ==
    /\ k \in 1..Len(raw_log)
    /\ rec.timestamp = raw_log[k].timestamp
    /\ rec.raw_hex = raw_log[k].hex

\* the buffer holds its records in the order of delivery
InDeliveryOrder(measurements) ==
    /\ \A k \in 1..Len(measurements) : MadeFrom(measurements[k], measurements[k].timestamp)
    /\ \A j, k \in 1..Len(measurements) :
           j < k => measurements[j].timestamp < measurements[k].timestamp

\* every record of the buffer is still the record of the same frame, in its place
PositionsKept ==
    /\ Len(current_measurements') >= Len(current_measurements)
    /\ \A k \in 1..Len(current_measurements) :
           /\ current_measurements'[k].timestamp = current_measurements[k].timestamp
           /\ current_measurements'[k].raw_hex = current_measurements[k].raw_hex

\* C16: the records of the phase buffer are in the order in which their
\* frames were delivered: of two records the one delivered earlier has the
\* lower index, and a call of the handler never moves an existing record.
C16_DeliveryOrder ==
    /\ [](InDeliveryOrder(current_measurements))
    /\ [][HandlerStep => PositionsKept]_vars

\* two LIGHT frames with a dropped DARK frame and an auxiliary frame between
\* them are the two records of the buffer
C16_Witness ==
    /\ Delivered(<<LightHighByteFrame, DarkFrame, BatteryFrame, LightFrame>>)
    /\ Len(current_measurements) = 2
    /\ current_measurements[1].timestamp = 1
    /\ current_measurements[2].timestamp = 4

RunEnds == pc # "done" /\ pc' = "done"

LightDelivered ==
    /\ HandlerStep
    /\ IsPrimary(notification')
    /\ \E k \in 15..20 : notification'[2][k] # 0

\* the last record of the buffer after the step is the record of the frame
\* the step delivered
BufferedLast ==
    /\ Len(current_measurements') = Len(current_measurements) + 1
    /\ current_measurements'[Len(current_measurements')].timestamp = clock'
    /\ current_measurements'[Len(current_measurements')].raw_hex = Hex(notification'[2])

\* the export of the step is handed every record of the buffer, and a file
\* that is written has them all
ExportsBuffer ==
    LET e == exported'[Len(exported')] IN
    /\ e.rows = current_measurements
    /\ e.result = "saved" =>
           /\ Len(files'[e.name][1].rows) = Len(current_measurements)
           /\ \A k \in 1..Len(current_measurements) :
                  /\ files'[e.name][1].rows[k].timestamp = current_measurements[k].timestamp
                  /\ files'[e.name][1].rows[k].raw_hex = current_measurements[k].raw_hex

\* C18: every LIGHT_DETECTED primary frame delivered between a phase's buffer
\* reset and that phase's export, at whichever point of the command loop it
\* arrives, becomes a record of the buffer, stays in it until the export and
\* is a record of that export; no such frame is dropped.
C18_NoLightFrameDropped ==
    /\ [][(pc \in PollingPoints /\ LightDelivered) => BufferedLast]_vars
    /\ [][(pc \in PollingPoints /\ ~ExportStep) => PositionsKept]_vars
    /\ [][ExportStep => ExportsBuffer]_vars

\* the two frames delivered were LIGHT frames of one phase, and the file of
\* that phase has the two records
C18_Witness ==
    /\ script = "read_1"
    /\ exported # <<>>
    /\ LastExport.result = "saved"
    /\ Len(LastExport.rows) = 2
    /\ Delivered(<<LightFrame, LightFrame>>)
    /\ \A k \in 1..2 : files[LastExport.name][1].rows[k].timestamp = k

(***************************************************************************)
(* One buffer per phase, checked under SpecScripts.                        *)
(***************************************************************************)
\* the step starts a phase: run_measurement_phase is entered, or choice 1 of
\* the menu is taken
PhaseStarts ==
    \/ pc # "prompt" /\ pc' = "prompt"
    \/ pc = "menu" /\ pc' = "write_start"

\* the records the step puts into the buffer are records of the frame the
\* step delivers; a step that delivers nothing adds none
OnlyDeliveredAdded ==
    \A k \in 1..Len(current_measurements') :
        \/ /\ k <= Len(current_measurements)
           /\ current_measurements'[k].timestamp = current_measurements[k].timestamp
        \/ /\ HandlerStep
           /\ current_measurements'[k].timestamp = clock'

\* no frame has a record in two export calls
ExportsDisjoint ==
    \A a, b \in 1..Len(exported) :
        a < b => \A j \in 1..Len(exported[a].rows), k \in 1..Len(exported[b].rows) :
                    exported[a].rows[j].timestamp # exported[b].rows[k].timestamp

\* C19: phase buffers are not shared across phases: the buffer is empty at
\* phase start, the export of a phase is handed the buffer, which since the
\* reset has only gained records of frames delivered after it, and no record
\* appears in the exports of two different phases.
C19_BufferPerPhase ==
    /\ [](pc = "prompt" => current_measurements = <<>>)
    /\ [](ExportsDisjoint)
    /\ [][PhaseStarts => current_measurements' = <<>>]_vars
    /\ [][OnlyDeliveredAdded]_vars
    /\ [][ExportStep => exported'[Len(exported')].rows = current_measurements]_vars

\* two phases have each exported the one record of the frame delivered in it
C19_Witness ==
    /\ Len(exported) = 2
    /\ Len(exported[1].rows) = 1
    /\ Len(exported[2].rows) = 1
    /\ exported[1].rows[1].timestamp = 1
    /\ exported[2].rows[1].timestamp = 2

(***************************************************************************)
(* Frames of the data characteristic, checked under SpecClassify.          *)
(***************************************************************************)
\* C20: every frame arriving on the data channel decodes to an
\* UnrecognizedFrame with a tag of its own that carries the raw hex and the
\* length of the frame, whatever the length, 20 and 11 included; it is never
\* a PrimarySample or an AuxiliarySample.
C20_DataChannelUnrecognized ==
    (Classified /\ notification[1] = OPPLE_CHARACTERISTIC_UUID_DATA_RX) =>
        /\ parsed.tag = "dict"
        /\ parsed.packet_type = "MEASUREMENT_DATA_CANDIDATE_FROM_RX_CHAR"
        /\ Variant(parsed) = "UnrecognizedFrame"
        /\ parsed.raw_hex = Hex(notification[2])
        /\ parsed.data_length = Len(notification[2])
        /\ DOMAIN parsed = {"tag", "packet_type", "raw_hex", "data_length"}

\* a 20-byte frame with a nonzero payload arrived on the data channel and
\* was decoded as an UnrecognizedFrame of length 20
C20_Witness ==
    /\ Classified
    /\ notification = RxFrame
    /\ parsed.packet_type = "MEASUREMENT_DATA_CANDIDATE_FROM_RX_CHAR"
    /\ parsed.data_length = 20

(***************************************************************************)
(* Decode failures, checked under SpecClassify.                            *)
(***************************************************************************)
\* buffers the handler may hold when a result comes in
SampleBuffers ==
    {<<>>,
     <<MeasurementEntry(Parse20(LightFrame[2]), 1)>>,
     <<MeasurementEntry(Parse20(LightFrame[2]), 1),
       MeasurementEntry(Parse20(LightHighByteFrame[2]), 2)>>}

\* a string result leaves the buffer of either script as it is
StringResultIgnored(parsed_result) ==
    \A m \in SampleBuffers :
        /\ HandleRead1(m, parsed_result, Len(m) + 1) = m
        /\ HandleRead(m, parsed_result, Len(m) + 1) = m

\* C21: parse_opple_data raises for no channel and no byte sequence: it
\* returns a dict or an explicit ERROR / INFO string, and the notification
\* handler leaves the buffer unchanged on a string result, an ERROR result
\* included, so that later frames are handled as usual.
C21_NeverRaises ==
    /\ Classified =>
           /\ parsed.tag \in {"dict", "str"}
           /\ parsed.tag = "str" =>
                  /\ parsed.prefix \in {"ERROR", "INFO"}
                  /\ StringResultIgnored(parsed)
    /\ StringResultIgnored(ParseError)

\* a command-channel frame too short for the offsets of either shape was
\* parsed: the result is a dict for an unknown length, nothing was raised
C21_Witness ==
    /\ Classified
    /\ notification = ShortFrame
    /\ parsed.tag = "dict"
    /\ parsed.packet_type = "UNKNOWN_LEN_FROM_COMMAND_CHAR"

(***************************************************************************)
(* The command writes, checked under SpecScripts.                          *)
(***************************************************************************)
\* bytes 0..11 of both commands
CommandPrefix == <<0, 0, 14, 0, 19, 0, 0, 2, 0, 0, 0, 0>>

IsStartPayload(data) ==
    Len(data) = 14 /\ SubSeq(data, 1, 12) = CommandPrefix /\ SubSeq(data, 13, 14) = <<10, 0>>

IsStopPayload(data) ==
    Len(data) = 14 /\ SubSeq(data, 1, 12) = CommandPrefix /\ SubSeq(data, 13, 14) = <<11, 0>>

\* C22: every write to the command channel is one of two fixed 14-byte
\* payloads that agree in bytes 0..11 and end in 0a 00 (start) and 0b 00
\* (stop); no other payload is ever written.
C22_OnlyTwoPayloads ==
    \A k \in 1..Len(written) :
        IsStartPayload(written[k].data) \/ IsStopPayload(written[k].data)

\* a start and then a stop command have been written
C22_Witness ==
    /\ Len(written) >= 2
    /\ written[1].ok /\ IsStartPayload(written[1].data)
    /\ written[2].ok /\ IsStopPayload(written[2].data)

(***************************************************************************)
(* Discovery and connection failures, checked under SpecScripts.           *)
(***************************************************************************)
\* the step is a scan that found no device or a connect that gave no
\* connection
DiscoveryOrConnectionFails ==
    /\ pc \in {"scan", "connect"}
    /\ pc' # "connect"
    /\ ~is_connected'

\* nothing of a session has happened
NoSession ==
    /\ subscribed = {}
    /\ written = <<>>
    /\ phase = 0
    /\ current_measurements = <<>>
    /\ exported = <<>>
    /\ \A n \in FileNames : files[n] = None

\* C23: discovery and connection errors are fatal to the run: when the device
\* is not discovered or the connection fails, the run ends there with no
\* channel subscribed, no command written, no phase run and no file exported,
\* and nothing happens after the end of the run.
C23_FatalBeforeSession ==
    /\ [][DiscoveryOrConnectionFails => (pc' = "done" /\ NoSession')]_vars
    /\ [][pc # "done"]_vars
    /\ []((pc = "done" /\ char_idx = 0) => NoSession)

\* the run has ended without a connection and without a session
C23_Witness ==
    /\ pc = "done"
    /\ outcome = "returned"
    /\ char_idx = 0
    /\ ~is_connected
    /\ NoSession

(***************************************************************************)
(* Export failures, checked under SpecScripts.                             *)
(***************************************************************************)
\* the step calls save_measurements_to_csv and open() raises IOError
FailedExport ==
    /\ ExportStep
    /\ exported'[Len(exported')].result = "io_error"

\* C24: an I/O failure of a phase's export does not crash the session: the
\* export was handed the buffer and leaves it as it is, no file changes, no
\* exception leaves the call, and the controller goes on with the next phase
\* (OPPLE_read_1.py), which resets the buffer, or back to the menu
\* (OPPLE_read.py); after the last phase the buffer is still as it was.
C24_ExportFailureSurvived ==
    [][FailedExport =>
          /\ current_measurements # <<>>
          /\ exported'[Len(exported')].rows = current_measurements
          /\ files' = files
          /\ outcome' = outcome
          /\ pc' # "done"
          /\ IF script = "read_1" /\ phase < Len(PHASES)
             THEN pc' = "prompt" /\ phase' = phase + 1
             ELSE /\ current_measurements' = current_measurements
                  /\ script = "read" => pc' = "menu"]_vars

\* the export of the first phase failed, the second phase ran and its file
\* was written
C24_Witness ==
    /\ script = "read_1"
    /\ Len(exported) = 2
    /\ exported[1].result = "io_error"
    /\ exported[2].result = "saved"
    /\ files[exported[1].name] = None
    /\ files[exported[2].name] # None

(***************************************************************************)
(* Cadence of the command loop, checked under SpecScripts.                 *)
(***************************************************************************)
\* the step is a write_gatt_char call
WriteStep == Len(written') = Len(written) + 1

\* the writes of the loop alternate start, stop, start, ..., start first
Alternating ==
    \A k \in 1..Len(written) :
        IF k % 2 = 1 THEN IsStartPayload(written[k].data)
                     ELSE IsStopPayload(written[k].data)

\* the successful writes of the loop
SuccessfulWrites == {k \in 1..Len(written) : written[k].ok}

\* C25: the command writes of a phase alternate start, stop, start, stop,
\* beginning with start; after a successful start the loop is suspended in
\* the dwell wait and after a successful stop in the settle wait, both
\* points where notifications are delivered; at most N starts are written,
\* and a phase whose loop runs to its end has written exactly N starts and N
\* stops, all successful.
C25_Cadence ==
    /\ [](Alternating)
    /\ [](Len(written) <= 2 * NumMeasurements)
    /\ [](\A k \in 1..(Len(written) - 1) : k \in SuccessfulWrites)
    /\ [](pc = "dwell" => Len(written) % 2 = 1 /\ Len(written) \in SuccessfulWrites)
    /\ [](pc \in {"write_stop", "settle"} => written # <<>>)
    /\ [](pc = "settle" => Len(written) % 2 = 0 /\ Len(written) \in SuccessfulWrites)
    /\ []({"dwell", "settle"} \subseteq AwaitPoints)
    /\ [][(WriteStep /\ written'[Len(written')].ok) =>
              pc' = IF Len(written') % 2 = 1 THEN "dwell" ELSE "settle"]_vars
    /\ [][(ExportStep /\ pc = "settle") =>
              /\ Len(written) = 2 * NumMeasurements
              /\ SuccessfulWrites = 1..Len(written)]_vars

\* a phase has run to the end of its loop and exported: N starts and N stops
\* were written
C25_Witness ==
    /\ exported # <<>>
    /\ Len(written) = 2 * NumMeasurements
    /\ SuccessfulWrites = 1..Len(written)
    /\ Alternating

(***************************************************************************)
(* Order of a phase of OPPLE_read_1.py, checked under Spec.                *)
(***************************************************************************)
\* phase p has started and is over
PhaseOver(p) ==
    /\ p \in 1..phase
    /\ p < phase \/ pc \notin ({"prompt"} \cup PollingPoints)

\* the export calls made for phase p
ExportsOf(p) == {k \in 1..Len(exported) : exported[k].name = PhaseFile(PHASES[p])}

\* the steps of a phase go forward only: from the prompt into the loop, and
\* from the loop to the prompt of the next phase only by way of the export
ForwardOnly ==
    /\ (pc = "prompt" /\ pc' \in PollingPoints) => pc' = "write_start"
    /\ (pc \in PollingPoints /\ pc' = "prompt") => (ExportStep /\ phase' = phase + 1)
    /\ (pc \notin ({"prompt"} \cup PollingPoints)) => pc' \notin PollingPoints
    /\ phase' \in {phase, phase + 1}

\* no command is written before the operator has confirmed, and the export
\* of a phase comes after the last write of the phase
WritesInsideLoop ==
    /\ WriteStep => pc \in {"write_start", "write_stop"}
    /\ ExportStep =>
           /\ pc \in PollingPoints
           /\ exported'[Len(exported')].name = PhaseFile(PHASES[phase])
           /\ pc' \in PollingPoints => phase' = phase + 1

\* the part of C26 without "exactly once": the order of the states, the
\* reset before the prompt, no write before the confirmation, the export
\* after the last write and not more than once
PhaseOrderKept ==
    /\ [](pc = "prompt" => current_measurements = <<>>)
    /\ [](\A p \in 1..Len(PHASES) : Cardinality(ExportsOf(p)) <= 1)
    /\ [](\A p \in 1..Len(PHASES) : ExportsOf(p) # {} => p \in 1..phase)
    /\ [][ForwardOnly]_vars
    /\ [][WritesInsideLoop]_vars

\* every phase that is over has been exported
ExportedOnce == \A p \in 1..Len(PHASES) : PhaseOver(p) => Cardinality(ExportsOf(p)) = 1

\* C26: each phase moves only IDLE, AWAITING_OPERATOR_READY, POLLING,
\* FINALIZED, never backwards and never without the reset: the buffer is
\* cleared before the prompt, no command is written before the operator has
\* confirmed, and the export happens exactly once per phase, after the last
\* command write of the phase.
C26_PhaseOrder == PhaseOrderKept /\ [](ExportedOnce)

(***************************************************************************)
(* Progress of the command loop of OPPLE_read_1.py.  Every awaited call    *)
(* of the loop returns: the two writes (with or without an exception) and  *)
(* the two sleeps, and so do the calls of the finally block.  Nothing is   *)
(* assumed about notifications.                                            *)
(***************************************************************************)
SpecProgress ==
    /\ Init
    /\ [][Next]_vars
    /\ WF_vars(WriteStart)
    /\ WF_vars(Dwell)
    /\ WF_vars(WriteStop)
    /\ WF_vars(Settle)
    /\ WF_vars(StopNotifyDone)
    /\ WF_vars(DisconnectDone)

\* the operator has confirmed phase p and its loop is about to write
Confirmed(p) == phase = p /\ pc = "write_start" /\ i = 0

\* a confirmed phase is exported unless the operator interrupts it
FinalizedUnlessInterrupted ==
    \A p \in 1..Len(PHASES) : Confirmed(p) ~> (ExportsOf(p) # {} \/ cancelled)

\* C27: once the operator has confirmed and provided every write call
\* returns, a phase always eventually reaches FINALIZED, that is, its export,
\* whatever notifications arrive and also when none arrives.
C27_PhaseFinalizes ==
    \A p \in 1..Len(PHASES) : Confirmed(p) ~> (ExportsOf(p) # {})

(***************************************************************************)
(* Order of the phases of OPPLE_read_1.py, checked under Spec.             *)
(***************************************************************************)
\* the files of the phases in the order of the session
SessionFiles ==
    <<"measurements_no_filter.csv", "measurements_2_layers.csv",
      "measurements_4_layers.csv">>

\* the k-th export call of the run is the export of the k-th phase
ExportsInOrder ==
    /\ Len(exported) <= Len(SessionFiles)
    /\ \A k \in 1..Len(exported) : exported[k].name = SessionFiles[k]

\* every phase before the current one has been exported, no later one has
EarlierPhasesExported ==
    /\ phase \in 0..Len(SessionFiles)
    /\ Len(exported) \in {phase - 1, phase}
    /\ (pc = "prompt" \/ pc \in PollingPoints) => Len(exported) = phase - 1

\* a phase starts only out of the export of the phase before it, and with
\* its buffer reset
StartsAfterExport ==
    phase' # phase =>
        /\ phase' = phase + 1
        /\ pc' = "prompt"
        /\ current_measurements' = <<>>
        /\ phase >= 1 =>
               /\ ExportStep
               /\ exported'[Len(exported')].name = SessionFiles[phase]

\* C28: the phases run in the fixed order No Filter, 2 Layers, 4 Layers,
\* one at a time: phase k+1 is not started, its buffer not reset and none of
\* its commands written, before phase k has been exported, so that at most
\* the current phase is not yet finalized.
C28_PhasesInOrder ==
    /\ [](ExportsInOrder)
    /\ [](EarlierPhasesExported)
    /\ [][StartsAfterExport]_vars
    /\ [][WriteStep => Len(exported) = phase - 1]_vars

\* the three phases have run and exported in order
C28_Witness ==
    /\ phase = 3
    /\ Len(exported) = 3
    /\ exported[1].name = "measurements_no_filter.csv"
    /\ exported[2].name = "measurements_2_layers.csv"
    /\ exported[3].name = "measurements_4_layers.csv"
    /\ exported[3].result = "saved"

(***************************************************************************)
(* Effect of single frames on the buffer, checked under SpecHandler.       *)
(***************************************************************************)
\* the step delivers an 11-byte frame of the command characteristic
AuxiliaryDelivered == HandlerStep /\ IsAuxiliary(notification')

\* the last record after the step is the last record before it, up to its
\* battery field
LastKeptButBattery ==
    LET n == Len(current_measurements) IN
    \A f \in DOMAIN current_measurements[n] :
        f # "RawBattery_mV" => current_measurements'[n][f] = current_measurements[n][f]

\* C29: an AuxiliarySample never changes the number of records of the buffer
\* and modifies no record but the last one, and of that only the battery
\* field; when the buffer is empty or the last record already has a battery
\* value, the buffer is left as it is.
C29_AuxiliaryTouchesLastOnly ==
    [][AuxiliaryDelivered =>
          /\ Len(current_measurements') = Len(current_measurements)
          /\ \A k \in 1..(Len(current_measurements) - 1) :
                 current_measurements'[k] = current_measurements[k]
          /\ current_measurements # <<>> => LastKeptButBattery
          /\ (\/ current_measurements = <<>>
              \/ current_measurements[Len(current_measurements)].RawBattery_mV # None)
                => current_measurements' = current_measurements]_vars

\* of two records the last one got the battery value of the first auxiliary
\* frame; the first record and the second auxiliary frame had no part
C29_Witness ==
    /\ Delivered(<<LightFrame, LightHighByteFrame, BatteryFrame, BatteryZeroFrame>>)
    /\ Len(current_measurements) = 2
    /\ current_measurements[1].RawBattery_mV = None
    /\ current_measurements[2].RawBattery_mV = Some(10000)

\* the step delivers a frame that is neither a 20-byte nor an 11-byte frame
\* of the command characteristic
UnrecognizedDelivered ==
    /\ HandlerStep
    /\ ~IsPrimary(notification')
    /\ ~IsAuxiliary(notification')

\* C30: a command-channel frame of a length other than 20 or 11, any frame
\* of the data channel and a frame of any other channel leave the buffer as
\* it is: no record is appended, removed or modified.
C30_UnrecognizedLeavesBuffer ==
    [][UnrecognizedDelivered =>
          /\ Variant(parsed') \in {"UnrecognizedFrame", "INFO"}
          /\ current_measurements' = current_measurements]_vars

\* after a LIGHT frame, a short command-channel frame, a 20-byte frame of the
\* data channel and an 11-byte frame of another channel were delivered: the
\* buffer is the one record, without a battery value
C30_Witness ==
    /\ Delivered(<<LightFrame, ShortFrame, RxFrame, OtherFrame>>)
    /\ Len(current_measurements) = 1
    /\ current_measurements[1].timestamp = 1
    /\ current_measurements[1].RawBattery_mV = None

(***************************************************************************)
(* Life of a record of the buffer of OPPLE_read_1.py, checked under Spec.  *)
(***************************************************************************)
\* the fields the operator fills in by hand after the session
GroundTruthFields ==
    {"App_Lux", "App_CCT", "App_Ra", "App_x", "App_y", "App_u", "App_v",
     "App_Battery_Percent"}

\* rec is the record of the 20-byte frame data as it is appended
FreshRecord(rec, data) ==
    /\ rec.RawVal_1 = data[15] + 256 * data[16]
    /\ rec.RawVal_2 = data[17] + 256 * data[18]
    /\ rec.RawVal_3 = data[19] + 256 * data[20]
    /\ rec.RawBattery_mV = None
    /\ \A f \in GroundTruthFields : rec[f] = None

\* the step appends one record for the frame it delivers and leaves the
\* earlier records as they are
AppendsOneRecord ==
    /\ Len(current_measurements') = Len(current_measurements) + 1
    /\ FreshRecord(current_measurements'[Len(current_measurements')], notification'[2])
    /\ \A k \in 1..Len(current_measurements) :
           current_measurements'[k] = current_measurements[k]

\* the records that are in the buffer before and after the step keep their
\* three raw fields
RawFieldsKept ==
    \A k \in 1..Len(current_measurements) :
        k <= Len(current_measurements') =>
            /\ current_measurements'[k].RawVal_1 = current_measurements[k].RawVal_1
            /\ current_measurements'[k].RawVal_2 = current_measurements[k].RawVal_2
            /\ current_measurements'[k].RawVal_3 = current_measurements[k].RawVal_3

\* C31: each LIGHT_DETECTED PrimarySample appends exactly one record at the
\* end of the buffer with the three raw fields of the frame, a null battery
\* field and null ground-truth fields; the raw fields of a buffered record
\* never change, the ground-truth fields are null in every reachable state,
\* and records leave the buffer only by the reset at phase start.
C31_RecordLife ==
    /\ [](\A k \in 1..Len(current_measurements) :
             \A f \in GroundTruthFields : current_measurements[k][f] = None)
    /\ [][LightDelivered => AppendsOneRecord]_vars
    /\ [][RawFieldsKept]_vars
    /\ [][Len(current_measurements') < Len(current_measurements) =>
              (PhaseStarts /\ current_measurements' = <<>>)]_vars

\* two LIGHT frames were delivered in one phase and an auxiliary frame was
\* not: two records with the fields of the frames and no battery value
C31_Witness ==
    /\ pc \in PollingPoints
    /\ Delivered(<<LightFrame, LightFrame>>)
    /\ Len(current_measurements) = 2
    /\ \A k \in 1..2 : FreshRecord(current_measurements[k], LightFrame[2])

(***************************************************************************)
(* Phase statistics, checked under SpecAverage.                            *)
(***************************************************************************)
\* the list drawn has been averaged
Averaged == pc = "average" /\ avg_data # None

\* the records of the buffer in which the field has a value
NonNull(key) ==
    {k \in 1..Len(current_measurements) : ValueOrNone(current_measurements[k], key) # None}

RECURSIVE SumOver(_, _)
\* the sum of the field over the records of an index set
SumOver(S, key) ==
    IF S = {} THEN 0
    ELSE LET k == CHOOSE x \in S : TRUE
         IN  ValueOrNone(current_measurements[k], key)[1] + SumOver(S \ {k}, key)

\* the mean the claim gives for a field: sum over count of the non-null
\* values, null when there is none
ExpectedMean(key) ==
    IF NonNull(key) = {} THEN None
    ELSE Some(<<SumOver(NonNull(key), key), Cardinality(NonNull(key))>>)

NumericFields == {"RawVal_1", "RawVal_2", "RawVal_3", "RawBattery_mV"}

\* every numeric field has its mean reported
MeansReported ==
    /\ DOMAIN avg_data[1] = NumericFields
    /\ \A key \in NumericFields : avg_data[1][key] = ExpectedMean(key)

\* C32 as stated: for every numeric raw field the reported mean is the sum of
\* the non-null values over their count, and null for a field that is null
\* in every record, also when the buffer is empty.
C32_MeanOfNonNull == Averaged => MeansReported

\* C32, amended: for a buffer with records the reported mean of every
\* numeric raw field is the sum of the non-null values over their count, and
\* null for a field that is null in every record; for an empty buffer no
\* field is reported, the result is the empty mapping.
C32_MeanOfNonNullUnlessEmpty ==
    Averaged =>
        IF current_measurements = <<>>
        THEN DOMAIN avg_data[1] = {}
        ELSE MeansReported

\* three records, two of them with a battery value: the battery mean is over
\* two values, the mean of the first field over three
C32_Witness ==
    /\ Averaged
    /\ Len(current_measurements) = 3
    /\ avg_data[1]["RawBattery_mV"] = Some(<<10000, 2>>)
    /\ avg_data[1]["RawVal_1"] = Some(<<65546, 3>>)
    /\ avg_data[1]["RawVal_2"] = Some(<<12822, 3>>)

(***************************************************************************)
(* Balance of the commands of a phase, checked under Spec.                 *)
(***************************************************************************)
\* every start of the loop that was written has a stop written after it
StartsStopped ==
    \A k \in SuccessfulWrites :
        IsStartPayload(written[k].data) =>
            \E j \in SuccessfulWrites : j > k /\ IsStopPayload(written[j].data)

\* C33: when a phase reaches FINALIZED, its export, every start command
\* successfully written in the phase has been followed by a successfully
\* written stop command, also when a stop write fails or the operator
\* interrupts the dwell wait.
C33_StartStopBalance == [][ExportStep => StartsStopped']_vars

(***************************************************************************)
(* Commands need the command characteristic, checked under SpecScripts.    *)
(***************************************************************************)
\* the command characteristic was found and subscribed by the enumeration
CommandSubscribed ==
    /\ tx_char_found
    /\ OPPLE_CHARACTERISTIC_UUID_COMMAND_TX \in subscribed

\* the enumeration is over and has not found the command characteristic
CommandMissing == is_connected /\ char_idx = Len(services) + 1 /\ ~tx_char_found

\* the points of the session from which the connection is only given up
ReleasePoints ==
    {"disconnect_missing", "stop_notify_tx", "stop_notify_rx", "disconnect", "done"}

\* C34: no start or stop command is written unless the command
\* characteristic was found and subscribed during the enumeration; when the
\* enumeration ends without it, the connection is released and no phase is
\* run.
C34_CommandsNeedCharacteristic ==
    /\ [][WriteStep => CommandSubscribed]_vars
    /\ [](CommandMissing => pc \in ReleasePoints)
    /\ [](~tx_char_found => pc \notin ({"prompt"} \cup PollingPoints))

(***************************************************************************)
(* The teardown of the connection, checked under SpecScripts.              *)
(***************************************************************************)
\* the points of the finally block where a stop_notify call is awaited
StopNotifyPoints == {"stop_notify_tx", "stop_notify_rx"}

\* a stop_notify call, returning or raising, is followed by the other
\* stop_notify call or by the disconnect call
DisconnectAfterStopNotify ==
    pc \in StopNotifyPoints => pc' \in StopNotifyPoints \cup {"disconnect"}

\* no stop_notify call is made once disconnect has been called
StopNotifyBeforeDisconnect ==
    /\ pc \in {"disconnect", "done"} => pc' \notin StopNotifyPoints
    /\ pc' = "disconnect" => is_connected

\* the awaited stop_notify call returns or raises
StopNotifyReturns == pc \in StopNotifyPoints /\ pc' # pc

\* the stop_notify call that is awaited is for a channel the enumeration found
StopNotifyOfFound ==
    /\ pc = "stop_notify_tx" => tx_char_found
    /\ pc = "stop_notify_rx" => rx_char_found

====
